---- MODULE Spec2Model ----
(***************************************************************************)
(* Model of the NDOW bonus-point report parsers of nevada-draw-sim:        *)
(*   scripts/parse_ndow_pdf_text.py   fixed-title scanner  (variant text)  *)
(*   scripts/parse_ndow_folder.py     R/NR-prefix scanner  (variant folder)*)
(*   scripts/import_ndow_urls.py      "Units:" scanner     (variant urls)  *)
(*   scripts/parse_ndow_pdf.py        table-based row builder              *)
(*                                                                         *)
(* Text is modelled at character level: a Python str is a sequence of      *)
(* one-character strings, so that the regular expressions and the string   *)
(* methods of the source are computed, not assumed.  Python's None is the  *)
(* empty sequence None and a present optional value v is Some(v) = <<v>>.  *)
(* Python indexes from 0, sequences here from 1: an index k of the source  *)
(* is k + 1 in the model.                                                  *)
(***************************************************************************)
EXTENDS Integers, Sequences, FiniteSets, TLC

VARIABLES
    variant,     \* which code runs: a segmenter "text", "folder", "urls", or a row
                 \* builder "rows" (parse_block_rows), "table" (normalize_table)
    all_lines,   \* the normalized line stream: sequence of [p: page, l: line]; l is
                 \* the name of a line of the vocabulary for the segmenters, and the
                 \* characters of the line in the normalizer specification
    i,           \* outer scan index of the segmenter (1-based)
    hunts,       \* the output list (hunts / blocks) of the segmenter
    src_nums,    \* history: the integers printed on each row-line of row_lines
    row_lines,   \* argument of parse_block_rows (row builder specification)
    rows,        \* result of parse_block_rows
    table,       \* argument of normalize_table
    data_rows,   \* result of normalize_table
    phase,       \* row builder specification: "input", "parsed", "raised" (an
                 \* exception left the row builder)
    source_url,  \* classification: the URL of the document, [text, res, sp] where res
                 \* and sp are history (the words the text was built from)
    block_title, \* classification: the title of the block, [text, res, sp] likewise
    classified,  \* classification: None, or Some([residency, species]) of the Record
    listing,     \* driver: the lines of the URL list file or the set of the PDF files of
                 \* the folder; None when the file or the folder does not exist
    docs,        \* driver: what fetching and parsing each document leads to
    urls,        \* driver: the documents still to process (urls of import_ndow_urls.py,
                 \* pdfs of parse_ndow_folder.py)
    all_blocks,  \* driver: the blocks gathered so far (all_blocks / all_hunts)
    out_json,    \* driver: None, or Some(the list written to OUT_JSON)
    main_pc,     \* driver: "start", "loop", "done", "exit" (SystemExit), "raised" (an
                 \* exception left main)
    pdf_pages,   \* normalizer: the pages of the document, [text, kept] where text is
                 \* what extract_text() returns and kept is history (the lines the
                 \* page was written from that hold a text and no page marker)
    pnum         \* normalizer: the number of the page to read next

\* the variables of the segmenters and of the row builders
parseVars == <<variant, all_lines, i, hunts, src_nums, row_lines, rows, table, data_rows, phase>>
\* the variables of the classification
classVars == <<source_url, block_title, classified>>

\* the variables of the drivers
mainVars == <<listing, docs, urls, all_blocks, out_json, main_pc>>

\* the variables of the normalizer (with all_lines)
normVars == <<pdf_pages, pnum>>

vars == <<parseVars, classVars, mainVars, normVars>>

(***************************************************************************)
(* Bounds of the model.                                                    *)
(***************************************************************************)
MaxRowLines == 2      \* row-lines handed to parse_block_rows
MaxRemaining == 11    \* integers after the bonus-points value on a row-line
MaxTableRows == 2     \* data rows of a table handed to normalize_table
MaxLines == 3         \* length of the exhaustively enumerated short streams
MaxBlocks == 2        \* number of block templates concatenated in a long stream

(***************************************************************************)
(* Python values.                                                          *)
(***************************************************************************)
None == <<>>
Some(v) == <<v>>

\* the classification variables while another part of the program runs
ClassIdle == source_url = None /\ block_title = None /\ classified = None
\* the normalizer variables while the normalizer does not run
NormIdle == pdf_pages = <<>> /\ pnum = 0
\* the driver variables while no driver runs
MainIdle ==
    /\ listing = None /\ docs = None /\ urls = <<>>
    /\ all_blocks = <<>> /\ out_json = None /\ main_pc = "idle"

DigitChars == <<"0","1","2","3","4","5","6","7","8","9">>
LetterChars == {"a","b","c","d","e","f","g","h","i","j","k","l","m","n","o","p","q","r","s","t","u","v","w","x","y","z",
                "A","B","C","D","E","F","G","H","I","J","K","L","M","N","O","P","Q","R","S","T","U","V","W","X","Y","Z"}

\* \d of the regular expressions
IsDigit(c) == \E d \in 1..10 : DigitChars[d] = c
DigitVal(c) == (CHOOSE d \in 1..10 : DigitChars[d] = c) - 1
\* \w (the characters between which \b finds no boundary)
IsWord(c) == IsDigit(c) \/ c \in LetterChars \/ c = "_"
\* \s, and what str.strip() removes
IsSpace(c) == c \in {" ", "\t", "\n", "\r"}

RECURSIVE SumSeq(_)
SumSeq(s) == IF s = <<>> THEN 0 ELSE Head(s) + SumSeq(Tail(s))

\* Python slice s[a:b] with 0 <= a, in 0-based half-open coordinates
Slice(s, a, b) == SubSeq(s, a + 1, IF b < Len(s) THEN b ELSE Len(s))

\* str.startswith
startswith(l, p) == Len(l) >= Len(p) /\ SubSeq(l, 1, Len(p)) = p

\* str.strip()
RECURSIVE lstrip(_)
lstrip(l) == IF l # <<>> /\ IsSpace(Head(l)) THEN lstrip(Tail(l)) ELSE l
RECURSIVE rstrip(_)
rstrip(l) == IF l # <<>> /\ IsSpace(l[Len(l)]) THEN rstrip(SubSeq(l, 1, Len(l) - 1)) ELSE l
strip(l) == rstrip(lstrip(l))

\* str.replace(pat, ""): every non-overlapping occurrence of pat removed, left to right
RECURSIVE remove(_, _)
remove(l, pat) ==
    IF l = <<>> THEN <<>>
    ELSE IF startswith(l, pat) THEN remove(SubSeq(l, Len(pat) + 1, Len(l)), pat)
    ELSE <<Head(l)>> \o remove(Tail(l), pat)

\* pat in l
RECURSIVE contains(_, _)
contains(l, pat) ==
    IF Len(l) < Len(pat) THEN FALSE
    ELSE startswith(l, pat) \/ contains(Tail(l), pat)

(***************************************************************************)
(* ints_from_line: re.findall(r"\d[\d,]*", line), each match converted by  *)
(* int(x.replace(",", "")).                                                *)
(***************************************************************************)
\* end (exclusive, 1-based) of the greedy run [\d,]* starting at position p
RECURSIVE TokenEnd(_, _)
TokenEnd(l, p) ==
    IF p <= Len(l) /\ (IsDigit(l[p]) \/ l[p] = ",") THEN TokenEnd(l, p + 1) ELSE p

\* int(x.replace(",", "")) for a token x of digits and commas, acc the value so far
RECURSIVE IntOfToken(_, _)
IntOfToken(x, acc) ==
    IF x = <<>> THEN acc
    ELSE IF Head(x) = "," THEN IntOfToken(Tail(x), acc)
    ELSE IntOfToken(Tail(x), 10 * acc + DigitVal(Head(x)))

RECURSIVE FindInts(_, _)
FindInts(l, p) ==
    IF p > Len(l) THEN <<>>
    ELSE IF IsDigit(l[p])
         THEN LET e == TokenEnd(l, p + 1)
              IN  <<IntOfToken(SubSeq(l, p, e - 1), 0)>> \o FindInts(l, e)
         ELSE FindInts(l, p + 1)

ints_from_line(line) == FindInts(line, 1)

\* int(s) of a str raises ValueError when s has more digits than
\* sys.int_max_str_digits, 4300 unless the interpreter is configured otherwise
IntMaxStrDigits == 4300

\* the positions around the maximal runs of digits and commas of a line
RunBounds(line) ==
    {0, Len(line) + 1} \cup { p \in 1..Len(line) : ~(IsDigit(line[p]) \/ line[p] = ",") }

\* ints_from_line(line) raises: a match of \d[\d,]* is the part of a maximal run of
\* digits and commas from its first digit on, so that the digits of the match are
\* the digits of the run, and int() is given them without the commas
ints_from_line_raises(line) ==
    \E a \in RunBounds(line) : \E b \in RunBounds(line) :
        /\ a < b /\ \A c \in RunBounds(line) : ~(a < c /\ c < b)
        /\ Cardinality({ p \in (a + 1)..(b - 1) : IsDigit(line[p]) }) > IntMaxStrDigits

(***************************************************************************)
(* parse_block_rows: the Row Reconstructor.                                *)
(***************************************************************************)
Row(bp, successful, totals, total_applicants) ==
    [bp |-> bp, successfulByChoice |-> successful,
     totalByChoice |-> totals, totalApplicants |-> total_applicants]

\* mutant of RowLineKept: the guard written "len(remaining) <= 5"
RowLineKept_OffByOne(nums) == nums # <<>> /\ Len(nums) - 1 > 5

\* the guards of the loop body: "if not nums: continue", "if len(remaining) < 5: continue"
RowLineKept(nums) == nums # <<>> /\ Len(nums) - 1 >= 5

\* mutant of RowOfNums: the totals taken from the first 5 of remaining, not the last 5
RowOfNums_FirstFive(nums) ==
    LET remaining == Tail(nums)
        totals == Slice(remaining, 0, 5)
        success_raw == Slice(remaining, 5, Len(remaining))
    IN  Row(nums[1], Slice(success_raw \o <<0, 0, 0, 0, 0>>, 0, 5), totals, SumSeq(totals))

\* mutant of RowOfNums: the padded success list not cut to 5 entries
RowOfNums_NoTruncate(nums) ==
    LET remaining == Tail(nums)
        success_count == Len(remaining) - 5
        totals == Slice(remaining, success_count, success_count + 5)
    IN  Row(nums[1], Slice(remaining, 0, success_count) \o <<0, 0, 0, 0, 0>>, totals, SumSeq(totals))

\* the body of the loop for a line that is kept
RowOfNums(nums) ==
    LET bp == nums[1]
        remaining == Tail(nums)
        success_count == Len(remaining) - 5
        success_raw == Slice(remaining, 0, success_count)
        totals == Slice(remaining, success_count, success_count + 5)
        successful == Slice(success_raw \o <<0, 0, 0, 0, 0>>, 0, 5)
    IN  Row(bp, successful, totals, SumSeq(totals))

\* the rows list after the for loop, before the sort
RECURSIVE BuildRows(_)
BuildRows(lines) ==
    IF lines = <<>> THEN <<>>
    ELSE LET nums == ints_from_line(Head(lines))
         IN  (IF RowLineKept(nums) THEN <<RowOfNums(nums)>> ELSE <<>>)
             \o BuildRows(Tail(lines))

\* list.sort(key=lambda r: r["bp"]): Python's sort is stable; modelled as the
\* insertion of each row behind the rows whose key is not larger.
\* mutant of InsertByBp: an unstable sort, a row put before the rows of equal key
RECURSIVE InsertByBp_Unstable(_, _)
InsertByBp_Unstable(sorted, r) ==
    IF sorted = <<>> THEN <<r>>
    ELSE IF Head(sorted).bp < r.bp THEN <<Head(sorted)>> \o InsertByBp_Unstable(Tail(sorted), r)
    ELSE <<r>> \o sorted

RECURSIVE InsertByBp(_, _)
InsertByBp(sorted, r) ==
    IF sorted = <<>> THEN <<r>>
    ELSE IF Head(sorted).bp <= r.bp THEN <<Head(sorted)>> \o InsertByBp(Tail(sorted), r)
    ELSE <<r>> \o sorted

RECURSIVE SortFrom(_, _)
SortFrom(sorted, rest) ==
    IF rest = <<>> THEN sorted ELSE SortFrom(InsertByBp(sorted, Head(rest)), Tail(rest))

sort_by_bp(rs) == SortFrom(<<>>, rs)

parse_block_rows(lines) == sort_by_bp(BuildRows(lines))

\* parse_block_rows raises: ints_from_line is applied to every line, before the
\* test of its length
parse_block_rows_raises(lines) == \E k \in 1..Len(lines) : ints_from_line_raises(lines[k])

(***************************************************************************)
(* normalize_table and clean_int: the table-based row builder of           *)
(* parse_ndow_pdf.py.  A table is a sequence of rows, a row a sequence of  *)
(* cells, a cell None or Some(text).                                       *)
(***************************************************************************)
\* c or ""
OrEmpty(c) == IF c = None THEN <<>> ELSE c[1]

RECURSIVE AllDigits(_)
AllDigits(s) == s = <<>> \/ (IsDigit(Head(s)) /\ AllDigits(Tail(s)))

\* clean_int over cells of digits, commas, spaces and letters: int(float(s)) is the
\* decimal value of an all-digit s and raises (caught: 0) on any other such text
clean_int(x) ==
    IF x = None THEN 0
    ELSE LET s == remove(strip(x[1]), <<",">>)
         IN  IF s = <<>> THEN 0
             ELSE IF AllDigits(s) THEN IntOfToken(s, 0)
             ELSE 0

UpperChars == <<"A","B","C","D","E","F","G","H","I","J","K","L","M","N","O","P","Q","R","S","T","U","V","W","X","Y","Z">>
LowerChars == <<"a","b","c","d","e","f","g","h","i","j","k","l","m","n","o","p","q","r","s","t","u","v","w","x","y","z">>
\* str.lower()
lower(s) ==
    [k \in 1..Len(s) |->
        IF \E u \in 1..26 : UpperChars[u] = s[k]
        THEN LowerChars[CHOOSE u \in 1..26 : UpperChars[u] = s[k]]
        ELSE s[k]]

\* " ".join([str(c or "").strip() for c in row])
RECURSIVE row_join(_)
row_join(row) ==
    IF row = <<>> THEN <<>>
    ELSE strip(OrEmpty(Head(row))) \o (IF Len(row) > 1 THEN <<" ">> \o row_join(Tail(row)) ELSE <<>>)

\* the first index whose row mentions "Bonus Points"; 0 when there is none (None)
RECURSIVE HeaderIdx(_, _)
HeaderIdx(tbl, k) ==
    IF k > Len(tbl) THEN 0
    ELSE IF contains(row_join(tbl[k]), <<"B","o","n","u","s"," ","P","o","i","n","t","s">>) THEN k
    ELSE HeaderIdx(tbl, k + 1)

\* "while len(cells) < 11: cells.append(0)"
RECURSIVE PadCells(_)
PadCells(cells) == IF Len(cells) < 11 THEN PadCells(Append(cells, 0)) ELSE cells

\* the row appended to data_rows for a table row whose first cell is a bonus-points value
TableRow(row) ==
    LET first == strip(OrEmpty(row[1]))
        bp == clean_int(Some(first))
        cells == PadCells([k \in 1..(Len(row) - 1) |-> clean_int(row[k + 1])])
        successful == Slice(cells, 0, 5)
        total_by_choice == Slice(cells, 5, 10)
        total_applicants == cells[11]
    IN  Row(bp, successful, total_by_choice, total_applicants)

\* the loop over table[header_idx + 1:], from row k on
RECURSIVE DataRows(_, _)
DataRows(tbl, k) ==
    IF k > Len(tbl) THEN <<>>
    ELSE LET first == strip(OrEmpty(tbl[k][1]))
         IN  IF lower(first) = <<"t","o","t","a","l">> THEN <<>>
             ELSE IF first = <<>> \/ ~AllDigits(strip(first)) THEN DataRows(tbl, k + 1)
             ELSE <<TableRow(tbl[k])>> \o DataRows(tbl, k + 1)

\* None when no header row is found, else Some(the sorted data rows)
normalize_table(tbl) ==
    LET header_idx == HeaderIdx(tbl, 1)
    IN  IF header_idx = 0 THEN None
        ELSE Some(sort_by_bp(DataRows(tbl, header_idx + 1)))

(***************************************************************************)
(* Input domain of the row builders: how the report prints a table row.    *)
(* Integers are printed in decimal with thousands separators and cells are *)
(* separated by one space; a cell the extractor drops prints nothing.      *)
(***************************************************************************)
RECURSIVE Dec(_)
Dec(n) == IF n < 10 THEN <<DigitChars[n + 1]>> ELSE Dec(n \div 10) \o <<DigitChars[(n % 10) + 1]>>

Dec3(n) == <<DigitChars[(n \div 100) + 1], DigitChars[((n \div 10) % 10) + 1], DigitChars[(n % 10) + 1]>>

RECURSIVE Fmt(_)
Fmt(n) == IF n < 1000 THEN Dec(n) ELSE Fmt(n \div 1000) \o <<",">> \o Dec3(n % 1000)

\* a row-line printing the integers nums; a row without numbers prints as a rule "--"
RECURSIVE Render(_)
Render(nums) ==
    IF nums = <<>> THEN <<"-", "-">>
    ELSE IF Len(nums) = 1 THEN Fmt(nums[1])
    ELSE Fmt(nums[1]) \o <<" ">> \o Render(Tail(nums))

\* bonus points bp followed by n integers that differ by position (some above 999)
Cells(bp, n) == <<bp>> \o [k \in 1..n |-> 100 * k + bp]

SampleNums == { <<5, 1, 412, 300, 250, 200, 150>>,    \* the worked example
                <<3, 1176>>,                           \* too short a line
                <<>>,                                  \* no integer at all
                <<2, 9, 1176, 40, 30, 20, 10>> }       \* shares bp = 2 with Cells(2, n)

RowNums == { Cells(bp, n) : bp \in 1..2, n \in 0..MaxRemaining } \cup SampleNums

RowInputs == UNION { [1..n -> RowNums] : n \in 0..MaxRowLines }

\* row-lines that print an integer of IntMaxStrDigits + 1 digits: as the last of
\* seven integers, and as the second of two
LongToken == [k \in 1..(IntMaxStrDigits + 1) |-> "1"]
LongRowLines == { Render(<<5, 1, 412, 300, 250, 200>>) \o <<" ">> \o LongToken,
                  Render(<<3>>) \o <<" ">> \o LongToken }
LongRowInputs == { <<l>> : l \in LongRowLines }
                 \cup { <<Render(<<5, 1, 412, 300, 250, 200, 150>>), l>> : l \in LongRowLines }

\* table rows: the bonus points cell, n further cells, the "successful" cells
\* blank (None) when sparse, and the trailing cell (the 11th) the sum of the totals
TableCell(bp, k, sparse) ==
    IF sparse /\ k <= 5 /\ k # 1 THEN None
    ELSE IF k = 11 THEN Some(Fmt(SumSeq([t \in 1..5 |-> 100 * (t + 5) + bp])))
    ELSE Some(Fmt(100 * k + bp))

TableDataRow(bp, n, sparse) == <<Some(Fmt(bp))>> \o [k \in 1..n |-> TableCell(bp, k, sparse)]

TableHeaderRow == <<Some(<<"B","o","n","u","s"," ","P","o","i","n","t","s">>), None,
                    Some(<<"T","o","t","a","l"," ","A","p","p","l","i","c","a","n","t","s">>)>>

TableRows == { TableDataRow(bp, n, sparse) : bp \in 1..2, n \in 9..(MaxRemaining + 1), sparse \in BOOLEAN }
             \cup { <<Some(<<"T","o","t","a","l">>), Some(<<"9","9">>)>>,   \* the totals row
                    <<None, Some(<<"7">>)>>,                                \* a row with no first cell
                    <<Some(<<"1","s","t">>), Some(<<"2","n","d">>)>> }       \* a second header row

TableInputs == { <<TableHeaderRow>> \o body : body \in UNION { [1..n -> TableRows] : n \in 0..MaxTableRows } }
               \cup { <<TableDataRow(1, 11, FALSE)>> }                      \* a table without header row

(***************************************************************************)
(* Row builder specification: the two row builders applied to their inputs.*)
(***************************************************************************)
InitRows ==
    /\ ClassIdle
    /\ MainIdle
    /\ NormIdle
    /\ all_lines = <<>> /\ i = 0 /\ hunts = <<>>
    /\ rows = <<>> /\ data_rows = None /\ phase = "input"
    /\ \/ /\ variant = "rows"
          /\ \/ /\ src_nums \in RowInputs
                /\ row_lines = [k \in 1..Len(src_nums) |-> Render(src_nums[k])]
             \/ /\ src_nums = None
                /\ row_lines \in LongRowInputs
          /\ table = <<>>
       \/ /\ variant = "table"
          /\ src_nums = <<>> /\ row_lines = <<>>
          /\ table \in TableInputs

ParseBlockRows ==
    /\ variant = "rows" /\ phase = "input"
    /\ IF parse_block_rows_raises(row_lines)
       THEN phase' = "raised" /\ rows' = rows
       ELSE phase' = "parsed" /\ rows' = parse_block_rows(row_lines)
    /\ UNCHANGED <<variant, all_lines, i, hunts, src_nums, row_lines, table, data_rows, classVars, mainVars, normVars>>

NormalizeTable ==
    /\ variant = "table" /\ phase = "input"
    /\ data_rows' = normalize_table(table)
    /\ phase' = "parsed"
    /\ UNCHANGED <<variant, all_lines, i, hunts, src_nums, row_lines, rows, table, classVars, mainVars, normVars>>

NextRows == ParseBlockRows \/ NormalizeTable

SpecRows == InitRows /\ [][NextRows]_vars

(***************************************************************************)
(* Claims about the row builders, stated against the printed integers      *)
(* src_nums of the row-lines and checked under SpecRows.                   *)
(***************************************************************************)
RowsParsed == variant = "rows" /\ phase = "parsed"
TableParsed == variant = "table" /\ phase = "parsed"
DataRowsList == IF data_rows = None THEN <<>> ELSE data_rows[1]

\* what the reconstruction rule asks of a row-line printing ns = n0..nm, m >= 5
ExpTotals(ns) == [t \in 1..5 |-> ns[Len(ns) - 5 + t]]
ExpSuccessful(ns) == [c \in 1..5 |-> IF c <= Len(ns) - 6 THEN ns[1 + c] ELSE 0]
ExpRow(ns) == Row(ns[1], ExpSuccessful(ns), ExpTotals(ns), SumSeq(ExpTotals(ns)))

\* the row-lines that print at least 6 integers, in input order
KeptIdx == { k \in 1..Len(src_nums) : Len(src_nums[k]) >= 6 }
RECURSIVE ExpRowsFrom(_)
ExpRowsFrom(k) ==
    IF k > Len(src_nums) THEN <<>>
    ELSE (IF k \in KeptIdx THEN <<ExpRow(src_nums[k])>> ELSE <<>>) \o ExpRowsFrom(k + 1)

WithBp(rs, b) == LET Test(r) == r.bp = b IN SelectSeq(rs, Test)

\* C1: every row-line printing integers n0..nm with m >= 5 yields a Row with bp = n0,
\* totalByChoice = the last 5 of n1..nm and successfulByChoice = the integers before
\* them, zero-padded or cut to 5; "5 1 412 300 250 200 150" gives
\* bp 5, [1,0,0,0,0], [412,300,250,200,150], totalApplicants 1312.
C1_RowReconstruction ==
    RowsParsed =>
        /\ \A k \in KeptIdx : \E r \in 1..Len(rows) :
              /\ rows[r].bp = src_nums[k][1]
              /\ rows[r].totalByChoice = ExpTotals(src_nums[k])
              /\ rows[r].successfulByChoice = ExpSuccessful(src_nums[k])
        /\ (\E k \in 1..Len(src_nums) : src_nums[k] = <<5, 1, 412, 300, 250, 200, 150>>)
              => \E r \in 1..Len(rows) :
                    rows[r] = Row(5, <<1, 0, 0, 0, 0>>, <<412, 300, 250, 200, 150>>, 1312)

\* C1 witness: a padded line (the worked example) and a line with more than 5 success
\* integers have both been reconstructed
C1_Witness ==
    /\ RowsParsed /\ Len(rows) = 2
    /\ \E k \in 1..Len(src_nums) : src_nums[k] = <<5, 1, 412, 300, 250, 200, 150>>
    /\ \E k \in 1..Len(src_nums) : Len(src_nums[k]) >= 12

\* C4: for every Row of either row builder, totalApplicants is the sum of the five
\* totalByChoice values (never a trailing column of the source row).
C4_TotalApplicantsIsSum ==
    /\ \A r \in 1..Len(rows) : rows[r].totalApplicants = SumSeq(rows[r].totalByChoice)
    /\ \A r \in 1..Len(DataRowsList) :
          DataRowsList[r].totalApplicants = SumSeq(DataRowsList[r].totalByChoice)

\* C6: the number of Rows returned is the number of row-lines with at least 6
\* integers; lines sharing a bp are all kept.
C6_OneRowPerLongLine ==
    RowsParsed => Len(rows) = Cardinality(KeptIdx)

\* C6 witness: a line with fewer than 6 integers ("3 1,176") was dropped and a line
\* with exactly 6 integers was kept
C6_Witness ==
    /\ RowsParsed /\ Len(rows) = 1
    /\ \E k \in 1..Len(src_nums) : src_nums[k] = <<3, 1176>>
    /\ \E k \in 1..Len(src_nums) : Len(src_nums[k]) = 6

\* C7: rows is sorted non-decreasing by bp, and rows of equal bp keep the order of
\* their row-lines.
C7_SortedStable ==
    RowsParsed =>
        /\ \A a, b \in 1..Len(rows) : a < b => rows[a].bp <= rows[b].bp
        /\ \A b \in { rows[r].bp : r \in 1..Len(rows) } :
              WithBp(rows, b) = WithBp(ExpRowsFrom(1), b)

\* C7 witness: two different rows of equal bp have been sorted
C7_Witness ==
    /\ RowsParsed /\ Len(rows) = 2
    /\ rows[1].bp = rows[2].bp /\ rows[1] # rows[2]

\* C8: every Row of either row builder has exactly 5 successfulByChoice and exactly
\* 5 totalByChoice entries.
C8_FiveAndFive ==
    /\ \A r \in 1..Len(rows) :
          Len(rows[r].successfulByChoice) = 5 /\ Len(rows[r].totalByChoice) = 5
    /\ \A r \in 1..Len(DataRowsList) :
          Len(DataRowsList[r].successfulByChoice) = 5 /\ Len(DataRowsList[r].totalByChoice) = 5

\* C8 witness: a row-line with 6 success integers (12 in all) has become a Row
C8_Witness ==
    /\ RowsParsed /\ Len(rows) >= 1
    /\ \E k \in 1..Len(src_nums) : Len(src_nums[k]) = 12

(***************************************************************************)
(* The line stream.  A line of the state is named by its text (a string);  *)
(* Chars gives the characters the code reads.                              *)
(***************************************************************************)
Chars ==
    ("NR Elk Antlered" :> <<"N","R"," ","E","l","k"," ","A","n","t","l","e","r","e","d">>) @@
    ("Units: 061, 071" :> <<"U","n","i","t","s",":"," ","0","6","1",","," ","0","7","1">>) @@
    ("Season: Oct 05 - Oct 21" :> <<"S","e","a","s","o","n",":"," ","O","c","t"," ","0","5"," ","-"," ","O","c","t"," ","2","1">>) @@
    ("Quota: 1" :> <<"Q","u","o","t","a",":"," ","1">>) @@
    ("Weapon Any Legal Weapon" :> <<"W","e","a","p","o","n"," ","A","n","y"," ","L","e","g","a","l"," ","W","e","a","p","o","n">>) @@
    ("Bonus Points" :> <<"B","o","n","u","s"," ","P","o","i","n","t","s">>) @@
    ("5 1 412 300 250 200 150" :> <<"5"," ","1"," ","4","1","2"," ","3","0","0"," ","2","5","0"," ","2","0","0"," ","1","5","0">>) @@
    ("2 40 30 20 10 5" :> <<"2"," ","4","0"," ","3","0"," ","2","0"," ","1","0"," ","5">>) @@
    ("3 1,176" :> <<"3"," ","1",",","1","7","6">>) @@
    ("Total 1,312" :> <<"T","o","t","a","l"," ","1",",","3","1","2">>) @@
    ("1st 2nd 3rd 4th 5th 1st" :> <<"1","s","t"," ","2","n","d"," ","3","r","d"," ","4","t","h"," ","5","t","h"," ","1","s","t">>)

N == Len(all_lines)
lines(k) == Chars[all_lines[k].l]
pages(k) == all_lines[k].p

TitleText == <<"N","R"," ","E","l","k"," ","A","n","t","l","e","r","e","d">>
UnitsLabel == <<"U","n","i","t","s",":">>
SeasonLabel == <<"S","e","a","s","o","n",":">>
QuotaLabel == <<"Q","u","o","t","a",":">>
WeaponLabel == <<"W","e","a","p","o","n">>
HeaderSentinel == <<"B","o","n","u","s"," ","P","o","i","n","t","s">>
TotalSentinel == <<"T","o","t","a","l">>
UnknownTitle == <<"U","n","k","n","o","w","n"," ","T","i","t","l","e">>

\* mutant of is_row_line: re.match(r"^\d", l), any line with a leading digit
is_row_line_AnyDigit(l) == l # <<>> /\ IsDigit(l[1])

\* re.match(r"^\d+\b", l): a leading run of digits that ends at a word boundary
RECURSIVE DigitsEnd(_, _)
DigitsEnd(l, p) == IF p <= Len(l) /\ IsDigit(l[p]) THEN DigitsEnd(l, p + 1) ELSE p
is_row_line(l) ==
    LET e == DigitsEnd(l, 1)
    IN  e > 1 /\ (e > Len(l) \/ ~IsWord(l[e]))

\* re.match(r"^(R|NR)\s+\S+", l)
RECURSIVE SpacesEnd(_, _)
SpacesEnd(l, p) == IF p <= Len(l) /\ IsSpace(l[p]) THEN SpacesEnd(l, p + 1) ELSE p
is_title_line(l) ==
    LET pre == IF startswith(l, <<"R">>) THEN 1 ELSE IF startswith(l, <<"N", "R">>) THEN 2 ELSE 0
        e == SpacesEnd(l, pre + 1)
    IN  pre > 0 /\ e > pre + 1 /\ e <= Len(l)

\* the anchor predicate of each script
is_anchor(v, l) ==
    CASE v = "text" -> l = TitleText
      [] v = "folder" -> is_title_line(l)
      [] v = "urls" -> startswith(l, UnitsLabel)

(***************************************************************************)
(* Metadata.                                                               *)
(***************************************************************************)
NoMeta == [units |-> None, season |-> None, quota |-> None, weapon |-> None]

\* mutant of read_label: the "Season:" branch missing
read_label_NoSeason(meta, l) ==
    IF startswith(l, UnitsLabel) THEN [meta EXCEPT !.units = Some(strip(remove(l, UnitsLabel)))]
    ELSE IF startswith(l, WeaponLabel) THEN [meta EXCEPT !.weapon = Some(strip(remove(l, WeaponLabel)))]
    ELSE meta

\* the if/elif chain over the label prefixes (parse_pdf and extract_metadata)
read_label(meta, l) ==
    IF startswith(l, UnitsLabel) THEN [meta EXCEPT !.units = Some(strip(remove(l, UnitsLabel)))]
    ELSE IF startswith(l, SeasonLabel) THEN [meta EXCEPT !.season = Some(strip(remove(l, SeasonLabel)))]
    ELSE IF startswith(l, QuotaLabel)
         THEN LET q == ints_from_line(l)
              IN  [meta EXCEPT !.quota = IF q # <<>> THEN Some(q[1]) ELSE None]
    ELSE IF startswith(l, WeaponLabel) THEN [meta EXCEPT !.weapon = Some(strip(remove(l, WeaponLabel)))]
    ELSE meta

\* the chain of parse_pdf_blocks, which has no "Units:" branch
read_label_urls(meta, l) ==
    IF startswith(l, SeasonLabel) THEN [meta EXCEPT !.season = Some(strip(remove(l, SeasonLabel)))]
    ELSE IF startswith(l, QuotaLabel)
         THEN LET q == ints_from_line(l)
              IN  [meta EXCEPT !.quota = IF q # <<>> THEN Some(q[1]) ELSE None]
    ELSE IF startswith(l, WeaponLabel) THEN [meta EXCEPT !.weapon = Some(strip(remove(l, WeaponLabel)))]
    ELSE meta

\* an output record; anchor and header are history fields (the indexes of the
\* anchor line that opened the block and of the header line the scan stopped on)
Record(title, meta, rs, start_page, end_page, a, h) ==
    [title |-> title, units |-> meta.units, season |-> meta.season, quota |-> meta.quota,
     weapon |-> meta.weapon, rows |-> rs, startPage |-> start_page, endPage |-> end_page,
     anchor |-> a, header |-> h]

\* mutant of keep_block: the block appended whatever its rows
keep_block_Always(rs) == TRUE

\* "if rows:" / "if block["rows"]:", the keep-or-discard test of the three scripts
keep_block(rs) == rs # <<>>

(***************************************************************************)
(* parse_pdf of parse_ndow_pdf_text.py (variant "text").                   *)
(***************************************************************************)
\* mutant of MetaLoopText: "i -= 2" on a new anchor line
RECURSIVE MetaLoopText_BackTwo(_, _)
MetaLoopText_BackTwo(k, meta) ==
    IF k > N THEN [meta |-> meta, i |-> k]
    ELSE LET l == lines(k)
             m == read_label(meta, l)
         IN  IF startswith(l, HeaderSentinel) THEN [meta |-> m, i |-> k]
             ELSE IF l = TitleText THEN [meta |-> m, i |-> k - 2]
             ELSE MetaLoopText_BackTwo(k + 1, m)

\* the metadata loop from index k on: the metadata read and the value of i after it
RECURSIVE MetaLoopText(_, _)
MetaLoopText(k, meta) ==
    IF k > N THEN [meta |-> meta, i |-> k]
    ELSE LET l == lines(k)
             m == read_label(meta, l)
         IN  IF startswith(l, HeaderSentinel) THEN [meta |-> m, i |-> k]
             ELSE IF l = TitleText THEN [meta |-> m, i |-> k - 1]
             ELSE MetaLoopText(k + 1, m)

\* the row loop from index k on: row_lines, the value of i after it, and
\* block["endPage"] (None when the key is never set)
RECURSIVE RowLoopText(_, _)
RowLoopText(k, acc) ==
    IF k > N THEN [row_lines |-> acc, i |-> k, endPage |-> None]
    ELSE LET l == lines(k)
         IN  IF startswith(l, TotalSentinel)
             THEN [row_lines |-> acc, i |-> k, endPage |-> Some(pages(k))]
             ELSE IF l = TitleText
             THEN [row_lines |-> acc, i |-> k - 1, endPage |-> Some(pages(k))]
             ELSE RowLoopText(k + 1, IF is_row_line(l) THEN Append(acc, l) ELSE acc)

\* mutant of TextBlock: the block put at the front of hunts
TextBlock_Prepend ==
    /\ variant = "text" /\ i <= N /\ is_anchor("text", lines(i))
    /\ LET m == MetaLoopText(i + 1, NoMeta)
           r == RowLoopText(m.i + 1, <<>>)
           rs == parse_block_rows(r.row_lines)
       IN  /\ hunts' = IF keep_block(rs)
                       THEN <<Record(lines(i), m.meta, rs, pages(i), r.endPage, i, m.i)>> \o hunts
                       ELSE hunts
           /\ i' = r.i + 1
    /\ UNCHANGED <<variant, all_lines, src_nums, row_lines, rows, table, data_rows, phase, classVars, mainVars, normVars>>

\* one iteration of the outer loop on an anchor line
TextBlock ==
    /\ variant = "text" /\ i <= N /\ is_anchor("text", lines(i))
    /\ LET m == MetaLoopText(i + 1, NoMeta)
           r == RowLoopText(m.i + 1, <<>>)
           rs == parse_block_rows(r.row_lines)
       IN  /\ hunts' = IF keep_block(rs)
                       THEN Append(hunts, Record(lines(i), m.meta, rs, pages(i), r.endPage, i, m.i))
                       ELSE hunts
           /\ i' = r.i + 1
    /\ UNCHANGED <<variant, all_lines, src_nums, row_lines, rows, table, data_rows, phase, classVars, mainVars, normVars>>

(***************************************************************************)
(* parse_single_pdf and extract_metadata of parse_ndow_folder.py           *)
(* (variant "folder").                                                     *)
(***************************************************************************)
RECURSIVE extract_metadata(_, _)
extract_metadata(k, meta) ==
    IF k > N THEN [meta |-> meta, i |-> k]
    ELSE LET l == lines(k)
             m == read_label(meta, l)
         IN  IF startswith(l, HeaderSentinel) THEN [meta |-> m, i |-> k]
             ELSE extract_metadata(k + 1, m)

\* mutant of RowLoop: the Total line does not stop the row loop
RECURSIVE RowLoop_PastTotal(_, _, _, _)
RowLoop_PastTotal(v, k, acc, end_page) ==
    IF k > N THEN [row_lines |-> acc, end_page |-> end_page]
    ELSE LET l == lines(k)
         IN  IF is_anchor(v, l)
             THEN [row_lines |-> acc, end_page |-> IF k - 1 >= 1 THEN pages(k - 1) ELSE end_page]
             ELSE RowLoop_PastTotal(v, k + 1, IF is_row_line(l) THEN Append(acc, l) ELSE acc, end_page)

\* the row loop of parse_single_pdf and parse_pdf_blocks from index k on, with the
\* anchor predicate of variant v: row_lines and end_page
RECURSIVE RowLoop(_, _, _, _)
RowLoop(v, k, acc, end_page) ==
    IF k > N THEN [row_lines |-> acc, end_page |-> end_page]
    ELSE LET l == lines(k)
         IN  IF startswith(l, TotalSentinel) THEN [row_lines |-> acc, end_page |-> pages(k)]
             ELSE IF is_anchor(v, l)
             THEN [row_lines |-> acc, end_page |-> IF k - 1 >= 1 THEN pages(k - 1) ELSE end_page]
             ELSE RowLoop(v, k + 1, IF is_row_line(l) THEN Append(acc, l) ELSE acc, end_page)

FolderBlock ==
    /\ variant = "folder" /\ i <= N /\ is_anchor("folder", lines(i))
    /\ LET m == extract_metadata(i + 1, NoMeta)
           j == m.i
       IN  IF j > N \/ ~startswith(lines(j), HeaderSentinel)
           THEN hunts' = hunts
           ELSE LET r == RowLoop("folder", j + 1, <<>>, pages(j))
                    rs == parse_block_rows(r.row_lines)
                IN  hunts' = IF keep_block(rs)
                             THEN Append(hunts, Record(lines(i), m.meta, rs, pages(i), Some(r.end_page), i, j))
                             ELSE hunts
    /\ i' = i + 1
    /\ UNCHANGED <<variant, all_lines, src_nums, row_lines, rows, table, data_rows, phase, classVars, mainVars, normVars>>

(***************************************************************************)
(* parse_pdf_blocks of import_ndow_urls.py (variant "urls").               *)
(***************************************************************************)
\* prev_nonempty(idx) or "Unknown Title"
RECURSIVE prev_nonempty(_)
prev_nonempty(j) ==
    IF j < 1 THEN None
    ELSE IF strip(lines(j)) # <<>> THEN Some(strip(lines(j)))
    ELSE prev_nonempty(j - 1)

RECURSIVE MetaLoopUrls(_, _)
MetaLoopUrls(k, meta) ==
    IF k > N THEN [meta |-> meta, i |-> k]
    ELSE LET l == lines(k)
             m == read_label_urls(meta, l)
         IN  IF startswith(l, HeaderSentinel) THEN [meta |-> m, i |-> k]
             ELSE IF startswith(l, UnitsLabel) THEN [meta |-> m, i |-> k]
             ELSE MetaLoopUrls(k + 1, m)

UrlsBlock ==
    /\ variant = "urls" /\ i <= N /\ is_anchor("urls", lines(i))
    /\ LET t == prev_nonempty(i - 1)
           title == IF t # None THEN t[1] ELSE UnknownTitle
           units == strip(remove(lines(i), UnitsLabel))
           m == MetaLoopUrls(i + 1, [NoMeta EXCEPT !.units = Some(units)])
           j == m.i
       IN  IF j > N \/ ~startswith(lines(j), HeaderSentinel)
           THEN hunts' = hunts
           ELSE LET r == RowLoop("urls", j + 1, <<>>, pages(j))
                    rs == parse_block_rows(r.row_lines)
                IN  hunts' = IF keep_block(rs)
                             THEN Append(hunts, Record(title, m.meta, rs, pages(i), Some(r.end_page), i, j))
                             ELSE hunts
    /\ i' = i + 1
    /\ UNCHANGED <<variant, all_lines, src_nums, row_lines, rows, table, data_rows, phase, classVars, mainVars, normVars>>

\* an iteration of the outer loop on a line that is no anchor: only "i += 1"
SkipLine ==
    /\ variant \in {"text", "folder", "urls"}
    /\ i <= N /\ ~is_anchor(variant, lines(i))
    /\ i' = i + 1
    /\ UNCHANGED <<variant, all_lines, hunts, src_nums, row_lines, rows, table, data_rows, phase, classVars, mainVars, normVars>>

(***************************************************************************)
(* Input domain of the segmenters: every stream of at most MaxLines lines  *)
(* over ShortVocab, and the concatenations of at most MaxBlocks block      *)
(* templates; the lines 1..b of a stream are on page 1, the others on      *)
(* page 2.                                                                 *)
(***************************************************************************)
ShortVocab == {"NR Elk Antlered", "Units: 061, 071", "Season: Oct 05 - Oct 21",
               "Weapon Any Legal Weapon", "Bonus Points", "5 1 412 300 250 200 150",
               "3 1,176", "Total 1,312"}

ShortStreams == UNION { [1..n -> ShortVocab] : n \in 0..MaxLines }

BlockTemplates == {
    \* a complete block, its rows not in bp order
    <<"NR Elk Antlered", "Units: 061, 071", "Season: Oct 05 - Oct 21", "Quota: 1",
      "Weapon Any Legal Weapon", "Bonus Points", "5 1 412 300 250 200 150", "2 40 30 20 10 5",
      "Total 1,312">>,
    \* a block without metadata and without Total line
    <<"NR Elk Antlered", "Bonus Points", "5 1 412 300 250 200 150">>,
    \* an anchor whose table header never comes
    <<"NR Elk Antlered", "Season: Oct 05 - Oct 21">>,
    \* a block whose only row-line is too short
    <<"NR Elk Antlered", "Units: 061, 071", "Bonus Points", "3 1,176", "Total 1,312">>,
    \* a "Units:" block without title line and Total line
    <<"Units: 061, 071", "Bonus Points", "2 40 30 20 10 5">>,
    \* a block with an ordinal header line and a row-line after the Total line
    <<"NR Elk Antlered", "Units: 061, 071", "Bonus Points", "1st 2nd 3rd 4th 5th 1st",
      "5 1 412 300 250 200 150", "Total 1,312", "2 40 30 20 10 5">> }

RECURSIVE Concat(_)
Concat(bs) == IF bs = <<>> THEN <<>> ELSE Head(bs) \o Concat(Tail(bs))

LongStreams == { Concat(bs) : bs \in UNION { [1..n -> BlockTemplates] : n \in 0..MaxBlocks } }

Paged(s, b) == [k \in 1..Len(s) |-> [p |-> IF k <= b THEN 1 ELSE 2, l |-> s[k]]]

Streams == UNION { { Paged(s, b) : b \in 0..Len(s) } : s \in ShortStreams \cup LongStreams }

Init ==
    /\ variant \in {"text", "folder", "urls"}
    /\ all_lines \in Streams
    /\ i = 1 /\ hunts = <<>>
    /\ src_nums = <<>> /\ row_lines = <<>> /\ rows = <<>>
    /\ table = <<>> /\ data_rows = None /\ phase = "input"
    /\ ClassIdle
    /\ MainIdle
    /\ NormIdle

Next == SkipLine \/ TextBlock \/ FolderBlock \/ UrlsBlock

Spec == Init /\ [][Next]_vars

(***************************************************************************)
(* Claims about the segmenters, checked under Spec.  The lines are         *)
(* classified here by their names, independently of the predicates the     *)
(* scanners compute on their characters.                                   *)
(***************************************************************************)
AnchorNames ==
    IF variant = "urls" THEN {"Units: 061, 071"} ELSE {"NR Elk Antlered"}
IsAnchorAt(k) == all_lines[k].l \in AnchorNames
IsHeaderAt(k) == all_lines[k].l = "Bonus Points"
IsTotalAt(k) == all_lines[k].l = "Total 1,312"
IsUnitsAt(k) == all_lines[k].l = "Units: 061, 071"
IsSeasonAt(k) == all_lines[k].l = "Season: Oct 05 - Oct 21"
IsWeaponAt(k) == all_lines[k].l = "Weapon Any Legal Weapon"
IsShortRowAt(k) == all_lines[k].l = "3 1,176"

\* the index of the first anchor line after index a, N + 1 when there is none
NextAnchor(a) ==
    IF \E b \in (a + 1)..N : IsAnchorAt(b)
    THEN CHOOSE b \in (a + 1)..N : IsAnchorAt(b) /\ \A c \in (a + 1)..(b - 1) : ~IsAnchorAt(c)
    ELSE N + 1

Scanned == i > N
HuntIdx == 1..Len(hunts)

\* C2: a block whose anchor is matched but which has no "Bonus Points" line before
\* the next anchor line or the end of the stream produces no Record: every Record has
\* a header line between its anchor and the next anchor.
C2_NoHeaderNoRecord ==
    \A h \in HuntIdx :
        \E k \in (hunts[h].anchor + 1)..(NextAnchor(hunts[h].anchor) - 1) : IsHeaderAt(k)

\* C3: an anchor line met while a block is open is not consumed by that block: the
\* step that handles the block opened at an anchor line i resumes the scan behind i
\* without passing over an anchor line, and a Record it emits has its header before
\* the next anchor line;
\* the scan then handles that anchor line as the start of its own block, so that two
\* adjacent blocks "anchor, header, row" without Total line both yield Records.
C3_AnchorReprocessed ==
    /\ [][(i <= N /\ IsAnchorAt(i)) =>
             /\ i' > i /\ \A k \in (i + 1)..(i' - 1) : k <= N => ~IsAnchorAt(k)
             /\ Len(hunts') > Len(hunts) => hunts'[Len(hunts')].header < NextAnchor(i)]_vars
    /\ [](Scanned =>
             \A a \in 1..(N - 5) :
                 (/\ IsAnchorAt(a) /\ IsHeaderAt(a + 1) /\ all_lines[a + 2].l = "5 1 412 300 250 200 150"
                  /\ IsAnchorAt(a + 3) /\ IsHeaderAt(a + 4) /\ all_lines[a + 5].l = "5 1 412 300 250 200 150")
                 => /\ \E h \in HuntIdx : hunts[h].anchor = a
                    /\ \E h \in HuntIdx : hunts[h].anchor = a + 3)

\* C5: every Record of the output has a non-empty rows list.
C5_RowsNonEmpty ==
    \A h \in HuntIdx : hunts[h].rows # <<>>

\* C5 witness: the stream was scanned, a block "anchor .. header, too short a row,
\* Total" was closed with zero rows and left no Record, and a later block did
C5_Witness ==
    /\ Scanned /\ Len(hunts) = 1
    /\ \E a \in 1..N : \E k \in (a + 1)..(N - 2) :
          /\ IsAnchorAt(a) /\ IsHeaderAt(k) /\ NextAnchor(a) > k + 2
          /\ IsShortRowAt(k + 1) /\ IsTotalAt(k + 2)
          /\ hunts[1].anchor > k + 2

\* the label line of a kind was read for Record h: it lies between the anchor line
\* and the header line the scan of the block stopped on
LabelRead(h, IsKindAt(_)) == \E k \in hunts[h].anchor..hunts[h].header : IsKindAt(k)

RowsEnd(h) ==
    LET Ends == { k \in (hunts[h].header + 1)..N : IsTotalAt(k) \/ IsAnchorAt(k) }
    IN  IF Ends = {} THEN N + 1 ELSE CHOOSE k \in Ends : \A m \in Ends : k <= m

\* C10: when the row reading of a block is ended by a new anchor line, the endPage of
\* the block is the page of the line just before that anchor line.
C10_EndPageBeforeAnchor ==
    \A h \in HuntIdx :
        LET e == RowsEnd(h)
        IN  (e <= N /\ IsAnchorAt(e)) => hunts[h].endPage = Some(pages(e - 1))

\* C11: when the stream ends while the rows of a block are being read (no Total line
\* and no anchor line after its header), the Record of the block carries as endPage
\* the page of the last line of the stream.
C11_EndPageAtStreamEnd ==
    \A h \in HuntIdx :
        RowsEnd(h) = N + 1 => hunts[h].endPage = Some(pages(N))

\* the digit-leading lines of the stream strictly between the indexes a and b
RECURSIVE RowLinesBetween(_, _)
RowLinesBetween(a, b) ==
    IF a + 1 >= b THEN <<>>
    ELSE IF is_row_line(lines(a + 1)) THEN <<lines(a + 1)>> \o RowLinesBetween(a + 1, b)
    ELSE RowLinesBetween(a + 1, b)

\* the rows of Record h are read in the stream strictly between these two indexes
ReadsRowAt(h, k) == hunts[h].header < k /\ k < RowsEnd(h)

\* the Total line at index e is met while the rows of a block are being read: a header
\* line that belongs to a block comes before it, with no Total or anchor line between
TotalInReadingRows(e) ==
    /\ IsTotalAt(e)
    /\ \E hh \in 1..(e - 1) :
          /\ IsHeaderAt(hh)
          /\ \E a \in 1..(hh - 1) :
                IsAnchorAt(a) /\ \A c \in (a + 1)..(hh - 1) : ~IsHeaderAt(c) /\ ~IsAnchorAt(c)
          /\ \A c \in (hh + 1)..(e - 1) : ~IsTotalAt(c) /\ ~IsAnchorAt(c)

\* C12: a Total line met while the rows of a block are read ends the row collection of
\* the block: the rows of a Record are rebuilt from the digit-leading lines between
\* its header line and the line that ended its rows, its endPage is the page of the
\* Total line when that line is a Total line, and no line after such a Total line and
\* before the next anchor line is read for the rows of any Record.
C12_TotalStopsRows ==
    /\ \A h \in HuntIdx :
          LET e == RowsEnd(h)
          IN  /\ hunts[h].rows = parse_block_rows(RowLinesBetween(hunts[h].header, e))
              /\ (e <= N /\ IsTotalAt(e)) => hunts[h].endPage = Some(pages(e))
    /\ \A e \in 1..N :
          TotalInReadingRows(e) =>
              \A k \in (e + 1)..(NextAnchor(e) - 1) : \A g \in HuntIdx : ~ReadsRowAt(g, k)

\* C12 witness: a Record was closed by a Total line on page 2 whose header line is on
\* page 1, and a digit-leading line that would give a row follows the Total line
C12_Witness ==
    /\ Scanned
    /\ \E h \in HuntIdx :
          LET e == RowsEnd(h)
          IN  /\ e < N /\ IsTotalAt(e) /\ pages(e) = 2 /\ pages(hunts[h].header) = 1
              /\ all_lines[e + 1].l = "2 40 30 20 10 5"
              /\ Len(hunts[h].rows) = 1

(***************************************************************************)
(* Words of the classification.                                            *)
(***************************************************************************)
\* the words the classification looks for and answers
SchemeSep == <<":","/","/">>
W_nonresident == <<"n","o","n","r","e","s","i","d","e","n","t">>
W_resident == <<"r","e","s","i","d","e","n","t">>
W_NR == <<"N","R">>
W_R == <<"R">>
W_elk == <<"e","l","k">>
W_mule_deer == <<"m","u","l","e","-","d","e","e","r">>
W_mule__deer == <<"m","u","l","e","_","d","e","e","r">>
W_deer == <<"d","e","e","r">>
W_antelope == <<"a","n","t","e","l","o","p","e">>
W_bighorn == <<"b","i","g","h","o","r","n">>
W_sheep == <<"s","h","e","e","p">>
W_goat == <<"g","o","a","t">>
W_moose == <<"m","o","o","s","e">>
W_bear == <<"b","e","a","r">>
W_unknown == <<"u","n","k","n","o","w","n">>

(***************************************************************************)
(* Classification of a block: the residency and species of its Record.     *)
(* import_ndow_urls.py takes hints from the URL of the document,           *)
(* parse_ndow_folder.py reads the title of the block.                      *)
(***************************************************************************)
\* the first index at which pat begins in s, 0 when there is none (str.find + 1)
RECURSIVE IndexFrom(_, _, _)
IndexFrom(s, pat, k) ==
    IF k + Len(pat) - 1 > Len(s) THEN 0
    ELSE IF SubSeq(s, k, k + Len(pat) - 1) = pat THEN k
    ELSE IndexFrom(s, pat, k + 1)
IndexOf(s, pat) == IndexFrom(s, pat, 1)

\* the last index at which the character c stands in s, 0 when there is none
RECURSIVE LastIndexOf(_, _)
LastIndexOf(s, c) ==
    IF s = <<>> THEN 0 ELSE IF s[Len(s)] = c THEN Len(s) ELSE LastIndexOf(SubSeq(s, 1, Len(s) - 1), c)

\* s up to the first occurrence of the character c, the whole of s when there is none
Before(s, c) == IF IndexOf(s, <<c>>) = 0 THEN s ELSE SubSeq(s, 1, IndexOf(s, <<c>>) - 1)

\* urlparse(url).path for "scheme://netloc/path;params?query#fragment" and for a
\* text without "://": the fragment, the query and the parameters of the last
\* segment are cut off, then scheme and netloc
urlparse_path(url) ==
    LET u == Before(Before(url, "#"), "?")
        sl == LastIndexOf(u, "/")
        semi == IndexOf(SubSeq(u, sl + 1, Len(u)), <<";">>)
        v == IF semi = 0 THEN u ELSE SubSeq(u, 1, sl + semi - 1)
        sch == IndexOf(v, SchemeSep)
        rest == IF sch = 0 THEN v ELSE SubSeq(v, sch + 3, Len(v))
        root == IndexOf(rest, <<"/">>)
    IN  IF sch = 0 THEN rest
        ELSE IF root = 0 THEN <<>> ELSE SubSeq(rest, root, Len(rest))

\* Path(p).name: the last component of the path, trailing slashes dropped
RECURSIVE path_name(_)
path_name(p) ==
    IF p = <<>> THEN <<>>
    ELSE IF p[Len(p)] = "/" THEN path_name(SubSeq(p, 1, Len(p) - 1))
    ELSE SubSeq(p, LastIndexOf(p, "/") + 1, Len(p))

infer_residency_from_url(url) ==
    LET u == lower(url)
    IN  IF contains(u, W_nonresident) THEN Some(W_NR)
        ELSE IF contains(u, W_resident) THEN Some(W_R)
        ELSE None

infer_species_from_url(url) ==
    LET u == lower(path_name(urlparse_path(url)))
    IN  IF contains(u, W_elk) THEN W_elk
        ELSE IF contains(u, W_mule_deer) \/ contains(u, W_mule__deer) THEN W_deer
        ELSE IF contains(u, W_antelope) THEN W_antelope
        ELSE IF contains(u, W_bighorn) THEN W_sheep
        ELSE IF contains(u, W_goat) THEN W_goat
        ELSE IF contains(u, W_moose) THEN W_moose
        ELSE IF contains(u, W_bear) THEN W_bear
        ELSE W_unknown

\* title_res of parse_pdf_blocks
title_res(t) ==
    IF startswith(t, W_NR \o <<" ">>) THEN Some(W_NR)
    ELSE IF startswith(t, W_R \o <<" ">>) THEN Some(W_R)
    ELSE None

\* str.split(): the maximal runs of characters that are no whitespace
RECURSIVE split(_)
split(s) ==
    LET t == lstrip(s)
        e == IF IndexOf(t, <<" ">>) = 0 THEN Len(t) ELSE IndexOf(t, <<" ">>) - 1
    IN  IF t = <<>> THEN <<>> ELSE <<SubSeq(t, 1, e)>> \o split(SubSeq(t, e + 1, Len(t)))

\* " ".join(parts)
RECURSIVE join(_)
join(parts) ==
    IF parts = <<>> THEN <<>>
    ELSE Head(parts) \o (IF Len(parts) > 1 THEN <<" ">> \o join(Tail(parts)) ELSE <<>>)

\* species_map.get(raw_species, raw_species): every key of the map has itself as value
species_map_get(raw) == raw

\* infer_species_and_category(title), for a title with at least one token
infer_species_and_category(t) ==
    LET parts == split(t)
        rest == Tail(parts)
        cat == strip(join(Tail(rest)))
    IN  IF rest = <<>> THEN [residency |-> Some(parts[1]), species |-> None, category |-> None]
        ELSE [residency |-> Some(parts[1]), species |-> Some(species_map_get(lower(rest[1]))),
              category |-> IF cat # <<>> THEN Some(cat) ELSE None]

(***************************************************************************)
(* Input domain of the classification.  A title is built from a residency  *)
(* code, a species word and a category, a URL from a residency word and a  *)
(* species word; "none" stands for a part that is left out.                *)
(***************************************************************************)
ResCodes == {"NR", "R", "none"}
SpeciesNames == {"elk", "antelope", "deer", "none"}

\* the residency code as it is written in a title and in a Record
ResCode == ("NR" :> W_NR) @@ ("R" :> W_R)
\* the species as it is written in a title, in a file name and in a Record
TitleWord == ("elk" :> <<"E","l","k">>) @@ ("antelope" :> <<"A","n","t","e","l","o","p","e">>) @@ ("deer" :> <<"D","e","e","r">>)
SpeciesName == ("elk" :> W_elk) @@ ("antelope" :> W_antelope) @@ ("deer" :> W_deer)
UrlResWord == ("NR" :> W_nonresident) @@ ("R" :> <<"R","e","s","i","d","e","n","t">>) @@ ("none" :> <<"c","o","m","b","i","n","e","d">>)
UrlSpeciesWord == ("elk" :> W_elk) @@ ("antelope" :> <<"A","n","t","e","l","o","p","e">>) @@ ("deer" :> W_mule_deer) @@
                  ("none" :> <<"b","o","n","u","s">>)

TitleText3(res, sp, cat) ==
    (IF res = "none" THEN <<>> ELSE ResCode[res] \o <<" ">>) \o TitleWord[sp] \o
    (IF cat THEN <<" ","A","n","t","l","e","r","e","d">> ELSE <<>>)

Titles ==
    { [text |-> TitleText3(res, sp, cat), res |-> res, sp |-> sp] :
          res \in ResCodes, sp \in SpeciesNames \ {"none"}, cat \in BOOLEAN }
    \cup { [text |-> UnknownTitle, res |-> "none", sp |-> "none"] }

\* two shapes of URL: the words in the file name only, and the species word in the
\* file name with another species in a directory and in the fragment
UrlText(shape, res, sp) ==
    IF shape = 1
    THEN <<"h","t","t","p","s",":","/","/","w","w","w",".","n","d","o","w",".","o","r","g","/","d","o","c","s","/">> \o UrlResWord[res] \o <<"-">> \o UrlSpeciesWord[sp] \o <<".","p","d","f">>
    ELSE <<"h","t","t","p","s",":","/","/","w","w","w",".","n","d","o","w",".","o","r","g","/","e","l","k","/">> \o UrlSpeciesWord[sp] \o <<"-">> \o UrlResWord[res] \o <<".","p","d","f","?","v","=","2","#","b","e","a","r">>

Urls ==
    { [text |-> UrlText(shape, res, sp), res |-> res, sp |-> sp] :
          shape \in {1, 2}, res \in ResCodes, sp \in SpeciesNames }

(***************************************************************************)
(* Classification specification.                                           *)
(***************************************************************************)
ParseIdle ==
    /\ all_lines = <<>> /\ i = 0 /\ hunts = <<>>
    /\ src_nums = <<>> /\ row_lines = <<>> /\ rows = <<>>
    /\ table = <<>> /\ data_rows = None /\ phase = "input"

InitClass ==
    /\ variant = "classify" /\ ParseIdle /\ MainIdle /\ NormIdle
    /\ source_url \in Urls /\ block_title \in Titles
    /\ classified = None

\* the residency and species parse_pdf_blocks writes into the Record of a block
ClassifyUrls ==
    /\ variant = "classify" /\ classified = None
    /\ LET inferred_res == infer_residency_from_url(source_url.text)
           inferred_species == infer_species_from_url(source_url.text)
           t_res == title_res(block_title.text)
       IN  classified' = Some([by |-> "urls",
                               residency |-> IF t_res # None THEN t_res ELSE inferred_res,
                               species |-> Some(inferred_species), category |-> None])
    /\ UNCHANGED <<parseVars, source_url, block_title, mainVars, normVars>>

\* the residency, species and category parse_single_pdf writes into the Record of a
\* block, whose title is an anchor line
ClassifyFolder ==
    /\ variant = "classify" /\ classified = None
    /\ is_anchor("folder", block_title.text)
    /\ LET c == infer_species_and_category(block_title.text)
       IN  classified' = Some([by |-> "folder", residency |-> c.residency,
                               species |-> c.species, category |-> c.category])
    /\ UNCHANGED <<parseVars, source_url, block_title, mainVars, normVars>>

NextClass == ClassifyUrls \/ ClassifyFolder

SpecClass == InitClass /\ [][NextClass]_vars

(***************************************************************************)
(* Claims about the classification, checked under SpecClass.               *)
(***************************************************************************)
ClassifiedBy(script) == classified # None /\ classified[1].by = script

\* C13: the residency and the species a title encodes are those of the Record
\* whatever hint the URL gives, and the hint of the URL is used only for what the
\* title does not encode.
C13_TitleOverridesHint ==
    ClassifiedBy("urls") =>
        LET c == classified[1]
        IN  /\ block_title.res # "none" => c.residency = Some(ResCode[block_title.res])
            /\ block_title.sp # "none" => c.species = Some(SpeciesName[block_title.sp])
            /\ (block_title.res = "none" /\ source_url.res # "none")
                   => c.residency = Some(ResCode[source_url.res])
            /\ (block_title.sp = "none" /\ source_url.sp # "none")
                   => c.species = Some(SpeciesName[source_url.sp])

(***************************************************************************)
(* The drivers: main of import_ndow_urls.py (variant "main_urls") and main *)
(* of parse_ndow_folder.py (variant "main_folder").  A document is a name; *)
(* docs gives for each name the outcome of fetching and parsing it and the *)
(* blocks the parser returns for it.                                       *)
(***************************************************************************)
MaxUrlLines == 3      \* lines of the URL list file

DocNames == {"a.pdf", "b.pdf", "c.pdf"}
\* a blank line and a comment line of the URL list file
BlankLine == ""
CommentLine == "# 2025"

\* the rank of a document name in the order of sorted(...)
NameRank == ("a.pdf" :> 1) @@ ("b.pdf" :> 2) @@ ("c.pdf" :> 3)

\* the number of blocks the parser finds in a readable document
BlockCount == ("a.pdf" :> 1) @@ ("b.pdf" :> 2) @@ ("c.pdf" :> 0)

\* the blocks parse_pdf_blocks / parse_single_pdf returns for a readable document
BlocksOf(name) == [k \in 1..BlockCount[name] |-> [sourceFile |-> name, k |-> k]]

\* the reading of the URL list: blank and comment lines dropped, a URL seen before
\* dropped, the order kept
RECURSIVE ReadUrls(_, _)
ReadUrls(ls, seen) ==
    IF ls = <<>> THEN <<>>
    ELSE IF Head(ls) = BlankLine \/ Head(ls) = CommentLine \/ Head(ls) \in seen
    THEN ReadUrls(Tail(ls), seen)
    ELSE <<Head(ls)>> \o ReadUrls(Tail(ls), seen \cup {Head(ls)})

\* sorted(PDF_DIR.glob("*.pdf"))
RECURSIVE SortedNames(_)
SortedNames(S) ==
    IF S = {} THEN <<>>
    ELSE LET m == CHOOSE x \in S : \A y \in S : NameRank[x] <= NameRank[y]
         IN  <<m>> \o SortedNames(S \ {m})

InitMain ==
    /\ ParseIdle /\ ClassIdle /\ NormIdle
    /\ urls = <<>> /\ all_blocks = <<>> /\ out_json = None /\ main_pc = "start"
    /\ \/ /\ variant = "main_urls"
          /\ listing \in {None} \cup
                 { Some(ls) : ls \in UNION { [1..n -> DocNames \cup {BlankLine, CommentLine}] :
                                               n \in 0..MaxUrlLines } }
          /\ docs \in [DocNames -> {"ok", "fetch_fails", "unreadable"}]
       \/ /\ variant = "main_folder"
          /\ listing \in {None} \cup { Some(S) : S \in SUBSET DocNames }
          /\ docs \in [DocNames -> {"ok", "unreadable"}]

\* main of import_ndow_urls.py up to the loop
MainUrlsStart ==
    /\ variant = "main_urls" /\ main_pc = "start"
    /\ IF listing = None
       THEN main_pc' = "exit" /\ urls' = urls
       ELSE main_pc' = "loop" /\ urls' = ReadUrls(listing[1], {})
    /\ UNCHANGED <<parseVars, classVars, listing, docs, all_blocks, out_json, normVars>>

\* one iteration of "for url in urls": the try block and its except clause
MainUrlsDoc ==
    /\ variant = "main_urls" /\ main_pc = "loop" /\ urls # <<>>
    /\ all_blocks' = IF docs[Head(urls)] = "ok"
                     THEN all_blocks \o BlocksOf(Head(urls))
                     ELSE all_blocks
    /\ urls' = Tail(urls)
    /\ UNCHANGED <<parseVars, classVars, listing, docs, out_json, main_pc, normVars>>

\* main of parse_ndow_folder.py up to the loop
MainFolderStart ==
    /\ variant = "main_folder" /\ main_pc = "start"
    /\ IF listing = None \/ listing = Some({})
       THEN main_pc' = "exit" /\ urls' = urls
       ELSE main_pc' = "loop" /\ urls' = SortedNames(listing[1])
    /\ UNCHANGED <<parseVars, classVars, listing, docs, all_blocks, out_json, normVars>>

\* one iteration of "for pdf_path in pdfs": no exception is handled
MainFolderDoc ==
    /\ variant = "main_folder" /\ main_pc = "loop" /\ urls # <<>>
    /\ IF docs[Head(urls)] = "ok"
       THEN /\ all_blocks' = all_blocks \o BlocksOf(Head(urls))
            /\ urls' = Tail(urls)
            /\ main_pc' = main_pc
       ELSE /\ main_pc' = "raised"
            /\ UNCHANGED <<all_blocks, urls>>
    /\ UNCHANGED <<parseVars, classVars, listing, docs, out_json, normVars>>

\* the end of both mains: OUT_JSON.write_text(json.dumps(...))
MainWrite ==
    /\ variant \in {"main_urls", "main_folder"} /\ main_pc = "loop" /\ urls = <<>>
    /\ out_json' = Some(all_blocks)
    /\ main_pc' = "done"
    /\ UNCHANGED <<parseVars, classVars, listing, docs, urls, all_blocks, normVars>>

NextMain == MainUrlsStart \/ MainUrlsDoc \/ MainFolderStart \/ MainFolderDoc \/ MainWrite

SpecMain == InitMain /\ [][NextMain]_vars

(***************************************************************************)
(* Claims about the drivers, checked under SpecMain.                       *)
(***************************************************************************)
\* the documents of the run, each once, in the order the driver takes them
RECURSIVE FirstOccurrences(_)
FirstOccurrences(ls) ==
    IF ls = <<>> THEN <<>>
    ELSE LET front == FirstOccurrences(SubSeq(ls, 1, Len(ls) - 1))
             x == ls[Len(ls)]
         IN  IF x \in DocNames /\ \A k \in 1..Len(front) : front[k] # x
             THEN Append(front, x) ELSE front

RunDocs ==
    IF listing = None THEN <<>>
    ELSE IF variant = "main_urls" THEN FirstOccurrences(listing[1])
    ELSE SortedNames(listing[1])

\* the blocks of the documents of ds that are fetched and read without failure
RECURSIVE GoodBlocks(_)
GoodBlocks(ds) ==
    IF ds = <<>> THEN <<>>
    ELSE (IF docs[Head(ds)] = "ok" THEN BlocksOf(Head(ds)) ELSE <<>>) \o GoodBlocks(Tail(ds))

\* C14: the failure of a document never ends the run: no exception leaves the driver,
\* the blocks gathered never come from a failing document, and the list a finished
\* run writes holds the blocks of every other document of the run, in both drivers.
C14_FailureSkipsDocument ==
    variant \in {"main_urls", "main_folder"} =>
        /\ main_pc # "raised"
        /\ \A k \in 1..Len(all_blocks) : docs[all_blocks[k].sourceFile] = "ok"
        /\ main_pc = "done" => out_json = Some(GoodBlocks(RunDocs))

(***************************************************************************)
(* Claim about errors, checked under SpecRows.                             *)
(***************************************************************************)
\* C15: parsing never aborts on malformed input: whatever lines it is given, the row
\* reconstructor completes without raising an error (no index out of range, no
\* failed integer parse); malformed lines only yield no row.
C15_NeverRaises == phase # "raised"

(***************************************************************************)
(* The Line Stream Normalizer: the loop over the pages at the head of      *)
(* parse_pdf, parse_single_pdf and extract_all_lines.                      *)
(***************************************************************************)
\* text.split("\n")
RECURSIVE split_newline(_)
split_newline(s) ==
    LET p == IndexOf(s, <<"\n">>)
    IN  IF p = 0 THEN <<s>>
        ELSE <<SubSeq(s, 1, p - 1)>> \o split_newline(SubSeq(s, p + 1, Len(s)))

PageWord == <<"P","a","g","e">>
OfWord == <<"o","f">>

\* the pattern Page\s+\d+\s+of\s+\d+ matches l from position p on
footer_at(l, p) ==
    LET a == p + Len(PageWord)
        b == SpacesEnd(l, a)
        c == DigitsEnd(l, b)
        d == SpacesEnd(l, c)
        e == d + Len(OfWord)
        f == SpacesEnd(l, e)
    IN  /\ startswith(SubSeq(l, p, Len(l)), PageWord)
        /\ b > a /\ c > b /\ d > c
        /\ startswith(SubSeq(l, d, Len(l)), OfWord)
        /\ f > e /\ f <= Len(l) /\ IsDigit(l[f])

\* mutant of is_footer: the pattern tried at the start of the line only (re.match)
is_footer_AtStart(l) == footer_at(l, 1)

\* re.search(r"Page\s+\d+\s+of\s+\d+", l)
is_footer(l) == \E p \in 1..Len(l) : footer_at(l, p)

has_text(l) == strip(l) # <<>>
not_footer(l) == ~is_footer(l)

\* the lines a page gives: [l.strip() for l in text.split("\n") if l.strip()] without
\* the lines that hold a page marker
page_lines(text) ==
    LET raw == SelectSeq(split_newline(text), has_text)
    IN  SelectSeq([k \in 1..Len(raw) |-> strip(raw[k])], not_footer)

(***************************************************************************)
(* Input domain of the normalizer: a document is a sequence of at most     *)
(* MaxPages pages; a page has no text at all (extract_text() gives None),  *)
(* the empty text, or the text of one of the page templates, whose lines   *)
(* are joined by newlines.  keep tells whether a line holds a text and no  *)
(* page marker.                                                            *)
(***************************************************************************)
MaxPages == 2         \* pages of a document

PageTemplates == {
    \* a page of the report with its page marker
    <<[text |-> <<"N","R"," ","E","l","k"," ","A","n","t","l","e","r","e","d">>, keep |-> TRUE],
      [text |-> <<"U","n","i","t","s",":"," ","0","6","1",","," ","0","7","1">>, keep |-> TRUE],
      [text |-> <<"1","/","5","/","2","0","2","6"," ","P","a","g","e"," ","1"," ","o","f"," ","2">>, keep |-> FALSE]>>,
    \* padded lines, an empty line and a line of whitespace
    <<[text |-> <<" "," ","B","o","n","u","s"," ","P","o","i","n","t","s"," ","\t">>, keep |-> TRUE],
      [text |-> <<>>, keep |-> FALSE],
      [text |-> <<" ","\t"," ">>, keep |-> FALSE],
      [text |-> <<"5"," ","1"," ","4","1","2"," ","3","0","0"," ","2","5","0"," ","2","0","0"," ","1","5","0">>, keep |-> TRUE]>>,
    \* page markers with more whitespace, and lines that only look like one
    <<[text |-> <<"P","a","g","e"," ","1","2"," "," ","o","f","\t","3","0">>, keep |-> FALSE],
      [text |-> <<"p","a","g","e"," ","1"," ","o","f"," ","2">>, keep |-> TRUE],
      [text |-> <<"P","a","g","e"," ","o","n","e"," ","o","f"," ","2">>, keep |-> TRUE],
      [text |-> <<"P","a","g","e","s"," ","1"," ","o","f"," ","2">>, keep |-> TRUE],
      [text |-> <<"P","a","g","e"," ","1"," ","o","f">>, keep |-> TRUE]>>,
    \* a text that ends with a newline
    <<[text |-> <<"T","o","t","a","l"," ","1",",","3","1","2">>, keep |-> TRUE],
      [text |-> <<>>, keep |-> FALSE]>>,
    \* a page of whitespace only
    <<[text |-> <<" "," ">>, keep |-> FALSE],
      [text |-> <<"\t">>, keep |-> FALSE]>>,
    \* a single line
    <<[text |-> <<"2"," ","4","0"," ","3","0"," ","2","0"," ","1","0"," ","5">>, keep |-> TRUE]>> }

\* "\n".join of the texts of the lines
RECURSIVE JoinLines(_)
JoinLines(ls) ==
    IF ls = <<>> THEN <<>>
    ELSE Head(ls).text \o (IF Len(ls) > 1 THEN <<"\n">> \o JoinLines(Tail(ls)) ELSE <<>>)

keep_line(x) == x.keep

Pages ==
    { [text |-> Some(JoinLines(t)), kept |-> SelectSeq(t, keep_line)] : t \in PageTemplates }
    \cup { [text |-> None, kept |-> <<>>], [text |-> Some(<<>>), kept |-> <<>>] }

InitNorm ==
    /\ variant = "normalize" /\ ClassIdle /\ MainIdle
    /\ i = 0 /\ hunts = <<>>
    /\ src_nums = <<>> /\ row_lines = <<>> /\ rows = <<>>
    /\ table = <<>> /\ data_rows = None /\ phase = "input"
    /\ pdf_pages \in UNION { [1..n -> Pages] : n \in 0..MaxPages }
    /\ all_lines = <<>> /\ pnum = 1

\* one iteration of "for pnum, page in enumerate(pdf.pages, start=1)"
NormalizePage ==
    /\ variant = "normalize" /\ pnum <= Len(pdf_pages)
    /\ LET text == OrEmpty(pdf_pages[pnum].text)
           ls == page_lines(text)
       IN  all_lines' = all_lines \o [k \in 1..Len(ls) |-> [p |-> pnum, l |-> ls[k]]]
    /\ pnum' = pnum + 1
    /\ UNCHANGED <<variant, i, hunts, src_nums, row_lines, rows, table, data_rows, phase,
                   classVars, mainVars, pdf_pages>>

NextNorm == NormalizePage

SpecNorm == InitNorm /\ [][NextNorm]_vars

(***************************************************************************)
(* Claim about the normalizer, checked under SpecNorm.                     *)
(***************************************************************************)
\* the lines kept of the pages 1..q, each with the number of its page and without
\* the whitespace around it
RECURSIVE KeptUpTo(_)
KeptUpTo(q) ==
    IF q = 0 THEN <<>>
    ELSE KeptUpTo(q - 1) \o
         [k \in 1..Len(pdf_pages[q].kept) |-> [p |-> q, l |-> strip(pdf_pages[q].kept[k].text)]]

\* C17: the normalizer gives the lines of the pages in the order of the pages and,
\* within a page, in the order of its lines, each with the number of its page counted
\* from 1, so that the page numbers never decrease; it gives no empty line, no line of
\* whitespace only and no line with a "Page N of M" marker, and nothing for a page
\* without text.
C17_NormalizedStream ==
    variant = "normalize" =>
        /\ all_lines = KeptUpTo(pnum - 1)
        /\ \A k \in 1..Len(all_lines) :
              /\ all_lines[k].p \in 1..Len(pdf_pages)
              /\ k > 1 => all_lines[k - 1].p <= all_lines[k].p
              /\ all_lines[k].l # <<>>
              /\ \E c \in 1..Len(all_lines[k].l) : ~IsSpace(all_lines[k].l[c])
              /\ \E x \in 1..Len(pdf_pages[all_lines[k].p].kept) :
                    strip(pdf_pages[all_lines[k].p].kept[x].text) = all_lines[k].l
        /\ \A q \in 1..(pnum - 1) :
              pdf_pages[q].kept = <<>> => \A k \in 1..Len(all_lines) : all_lines[k].p # q

\* C17 witness: a document was read whose first page has no text and whose second page
\* lost a page marker and kept the lines around it, numbered 2
C17_Witness ==
    /\ variant = "normalize" /\ pnum = 3
    /\ pdf_pages[1].text = None
    /\ Len(pdf_pages[2].kept) = 2 /\ Len(split_newline(pdf_pages[2].text[1])) = 3
    /\ Len(all_lines) = 2 /\ all_lines[1].p = 2 /\ all_lines[2].p = 2

(***************************************************************************)
(* Further claims about the segmenters, checked under Spec.                *)
(***************************************************************************)
\* C18: block locality: the lines read for a Record, for its metadata up to the
\* header line and for its rows behind it, lie after the anchor line of the Record
\* and before the next anchor line of the stream, and no digit-leading line is read
\* for the rows of two Records, in every variant.
C18_BlockLocality ==
    variant \in {"text", "folder", "urls"} =>
        /\ \A h \in HuntIdx :
              /\ hunts[h].anchor < hunts[h].header
              /\ hunts[h].header < NextAnchor(hunts[h].anchor)
              /\ RowsEnd(h) <= NextAnchor(hunts[h].anchor)
        /\ \A h \in HuntIdx : \A g \in HuntIdx :
              h # g => \A k \in 1..N :
                  ~(ReadsRowAt(h, k) /\ ReadsRowAt(g, k) /\ is_row_line(lines(k)))

\* the scan position after the iteration of the outer loop that handles line k
ScanAfter(k) ==
    IF variant = "text" /\ is_anchor("text", lines(k))
    THEN RowLoopText(MetaLoopText(k + 1, NoMeta).i + 1, <<>>).i + 1
    ELSE k + 1

\* C19: the scan terminates on every stream: whatever backtracking a new anchor line
\* causes, the iteration of the outer loop that handles a line leaves the scan
\* position strictly behind that line, for every line of the stream, and every
\* iteration taken moves the position to that place; the scan of a stream of N lines
\* is therefore over after N iterations at most.
C19_ScanTerminates ==
    /\ [](variant \in {"text", "folder", "urls"} =>
             /\ i >= 1
             /\ \A k \in 1..N : ScanAfter(k) > k)
    /\ [][(variant \in {"text", "folder", "urls"}) =>
             (i <= N /\ i' = ScanAfter(i) /\ i' > i)]_vars

\* C19 witness: the scan is over on a stream where the rows of a Record were ended by
\* an anchor line, the scan stepped back, and that anchor line gave a Record too
C19_Witness ==
    /\ Scanned
    /\ \E h \in HuntIdx : \E g \in HuntIdx :
          /\ RowsEnd(h) <= N /\ IsAnchorAt(RowsEnd(h))
          /\ hunts[g].anchor = RowsEnd(h)

\* C20: every Record has both startPage and endPage defined, with startPage <= endPage
\* (the pages of the model's streams never decrease along the stream), also when
\* the rows of its block run to the end of the stream without a Total line.
C20_PagesDefinedAndOrdered ==
    \A h \in HuntIdx :
        /\ hunts[h].startPage \in Nat
        /\ hunts[h].endPage # None
        /\ hunts[h].startPage <= hunts[h].endPage[1]

\* the anchor lines of the stream
AnchorLines == {k \in 1..N : IsAnchorAt(k)}

\* C21: within one document the Records are in the output in the order of their
\* anchor lines in the stream, so that startPage never decreases along the output
\* list; each anchor line yields at most one Record: an iteration of the outer loop
\* leaves the list alone or appends one Record, that of the anchor line it handles,
\* and there are never more Records than anchor lines.
C21_RecordsInAnchorOrder ==
    /\ [](variant \in {"text", "folder", "urls"} =>
             /\ \A h \in HuntIdx :
                   /\ hunts[h].anchor \in AnchorLines
                   /\ hunts[h].anchor < i
                   /\ hunts[h].startPage = pages(hunts[h].anchor)
             /\ \A h \in HuntIdx : \A g \in HuntIdx :
                   h < g => /\ hunts[h].anchor < hunts[g].anchor
                            /\ hunts[h].startPage <= hunts[g].startPage
             /\ Len(hunts) <= Cardinality(AnchorLines))
    /\ [][(variant \in {"text", "folder", "urls"}) =>
             \/ hunts' = hunts
             \/ /\ Len(hunts') = Len(hunts) + 1
                /\ SubSeq(hunts', 1, Len(hunts)) = hunts
                /\ hunts'[Len(hunts')].anchor = i]_vars

\* C21 witness: the scan is over and gave two Records, the first one of a block on
\* page 1 and the second one of a block on page 2
C21_Witness ==
    /\ Scanned /\ Len(hunts) = 2
    /\ hunts[1].startPage < hunts[2].startPage

\* row_lines as the row loop collects them for Record h, from the line after its
\* header line on
Collected(h) ==
    IF variant = "text"
    THEN RowLoopText(hunts[h].header + 1, <<>>).row_lines
    ELSE RowLoop(variant, hunts[h].header + 1, <<>>, pages(hunts[h].header)).row_lines

\* the line begins with a digit
LeadsWithDigit(l) == l # <<>> /\ l[1] \in {"0","1","2","3","4","5","6","7","8","9"}

\* the first token of the line, its leading run of letters, digits and "_", is made
\* of digits only
RECURSIVE FirstTokenIsNumber(_)
FirstTokenIsNumber(l) ==
    \/ l = <<>>
    \/ ~(l[1] \in LetterChars \/ l[1] = "_" \/ LeadsWithDigit(l))
    \/ LeadsWithDigit(l) /\ FirstTokenIsNumber(Tail(l))

\* the lines of the stream strictly between the indexes a and b that begin with a
\* digit
RECURSIVE DigitLedBetween(_, _)
DigitLedBetween(a, b) ==
    IF a + 1 >= b THEN <<>>
    ELSE IF LeadsWithDigit(lines(a + 1)) THEN <<lines(a + 1)>> \o DigitLedBetween(a + 1, b)
    ELSE DigitLedBetween(a + 1, b)

\* the same with a number as first token
RECURSIVE NumberLedBetween(_, _)
NumberLedBetween(a, b) ==
    IF a + 1 >= b THEN <<>>
    ELSE IF LeadsWithDigit(lines(a + 1)) /\ FirstTokenIsNumber(lines(a + 1))
    THEN <<lines(a + 1)>> \o NumberLedBetween(a + 1, b)
    ELSE NumberLedBetween(a + 1, b)

\* C22 as stated: the row-lines collected for a Record are all the lines beginning
\* with a digit between its header line and the Total or anchor line that closes its
\* rows, a line such as "1st 2nd 3rd 4th 5th ..." included, and no other line; the
\* rows of the Record are built from them.
C22_EveryDigitLedLineCollected ==
    \A h \in HuntIdx :
        /\ Collected(h) = DigitLedBetween(hunts[h].header, RowsEnd(h))
        /\ hunts[h].rows = parse_block_rows(DigitLedBetween(hunts[h].header, RowsEnd(h)))

\* C22 amended: the row-lines collected for a Record are the lines between its header
\* line and the line that closes its rows that begin with a digit and whose first
\* token is a number (the leading digits end at the end of the line or before a
\* character that is no letter, digit or "_"), and no other line; a digit-led line
\* whose first token goes on with letters, such as "1st 2nd 3rd 4th 5th ...", is not
\* collected.  The rows of the Record are built from the collected lines.
C22_NumberLedLinesCollected ==
    \A h \in HuntIdx :
        /\ Collected(h) = NumberLedBetween(hunts[h].header, RowsEnd(h))
        /\ hunts[h].rows = parse_block_rows(Collected(h))
        /\ \A k \in (hunts[h].header + 1)..(RowsEnd(h) - 1) :
              all_lines[k].l = "1st 2nd 3rd 4th 5th 1st" =>
                  \A n \in 1..Len(Collected(h)) : Collected(h)[n] # lines(k)

\* C22 witness: the scan is over and the rows of a Record were read over an ordinal
\* header line, a row-line and a line that begins with no digit
C22_Witness ==
    /\ Scanned
    /\ \E h \in HuntIdx :
          /\ \E k \in 1..N : ReadsRowAt(h, k) /\ all_lines[k].l = "1st 2nd 3rd 4th 5th 1st"
          /\ \E k \in 1..N : ReadsRowAt(h, k) /\ all_lines[k].l = "5 1 412 300 250 200 150"
          /\ Len(hunts[h].rows) = 1

====
